---- MODULE Spec2Model ----
(***************************************************************************)
(* GR/IR reconciliation (GRIR.py, app.py).                                 *)
(*                                                                         *)
(* run_analysis reads three tables (EKBE movements, EKPO lines, plant      *)
(* contacts), normalises and aggregates the movements, merges them into   *)
(* one summary table, classifies every row, and builds one digest per     *)
(* plant that is mailed to the plant's contacts.                           *)
(*                                                                         *)
(* Representation.                                                         *)
(*  - A str of digits (a PO number, a zero-padded Item) is the sequence of *)
(*    its digits, so that str order is the lexicographic order pandas      *)
(*    sorts by and astype(int) is a real conversion.                       *)
(*  - Other text (Material, Plant, Short Text, e-mail) is a TLA+ string;   *)
(*    TextOrder lists the text values in str order.                        *)
(*  - Quantities are whole numbers. Amounts are whole cents of the decimal *)
(*    numeral in the spreadsheet cell. The amounts of movement records are *)
(*    multiples of 0.25, which binary64 holds and adds without rounding;   *)
(*    the price check of apply_issue_logic is computed in binary64         *)
(*    (ToDouble, FloatSub, FloatGT below).                                 *)
(***************************************************************************)
EXTENDS Integers, Sequences, FiniteSets, TLC

(***************************************************************************)
(* Sequences and text                                                      *)
(***************************************************************************)

Range(s) == {s[i] : i \in 1..Len(s)}

\* Sequences over S of length at most n.
SeqsUpTo(S, n) == UNION {[1..k -> S] : k \in 0..n}

RECURSIVE SumSeq(_)
SumSeq(s) == IF s = <<>> THEN 0 ELSE Head(s) + SumSeq(Tail(s))

RECURSIVE Flatten(_)
Flatten(ss) == IF ss = <<>> THEN <<>> ELSE Head(ss) \o Flatten(Tail(ss))

\* str(n) of a non-negative int: its decimal digits.
RECURSIVE Str(_)
Str(n) == IF n < 10 THEN <<n>> ELSE Append(Str(n \div 10), n % 10)

\* str.zfill(width): zeros on the left up to width; a longer str is unchanged.
RECURSIVE zfill(_, _)
zfill(s, width) == IF Len(s) >= width THEN s ELSE zfill(<<0>> \o s, width)

\* int(s) of a str of digits.
RECURSIVE ToInt(_)
ToInt(s) ==
    IF s = <<>> THEN 0 ELSE 10 * ToInt(SubSeq(s, 1, Len(s) - 1)) + s[Len(s)]

\* s < t in str order (lexicographic, a proper prefix first).
RECURSIVE StrLess(_, _)
StrLess(s, t) ==
    IF t = <<>> THEN FALSE
    ELSE IF s = <<>> THEN TRUE
    ELSE IF Head(s) # Head(t) THEN Head(s) < Head(t)
    ELSE StrLess(Tail(s), Tail(t))

\* The text values of the model in str order ("" sorts first).
TextOrder == <<"", "M1", "M2", "P1", "P2", "P3">>

TextRank(x) == CHOOSE i \in 1..Len(TextOrder) : TextOrder[i] = x

TextLess(x, y) == TextRank(x) < TextRank(y)

\* DataFrame.drop_duplicates: the first occurrence of every row, in order.
RECURSIVE DropDuplicates(_)
DropDuplicates(s) ==
    IF s = <<>> THEN <<>>
    ELSE LET front == DropDuplicates(SubSeq(s, 1, Len(s) - 1))
             last  == s[Len(s)]
         IN  IF last \in Range(front) THEN front ELSE Append(front, last)

(***************************************************************************)
(* process_data                                                            *)
(*                                                                         *)
(* An EKBE row: TransEventType, PurchasingDocument (the PO number cell,    *)
(* taken from 'Purchasing Document' or, when EKBE has no such column, from *)
(* 'Reference Document'), Item, Material, Plant, DebitCreditInd, Quantity, *)
(* Amount, AmtInLocCur.  An EKPO row: PurchasingDocument, Item, ShortText, *)
(* DeletionIndicator.                                                      *)
(***************************************************************************)

\* Width of the zero-padded Item key: .str.zfill(5).
ItemWidth == 5

\* po_doc['Purchasing Document'].astype(str); po_doc['Item'].astype(str).str.zfill(5)
StandardizePoDoc(po_doc) ==
    [i \in 1..Len(po_doc) |->
        [PurchasingDocument |-> Str(po_doc[i].PurchasingDocument),
         Item               |-> zfill(Str(po_doc[i].Item), ItemWidth),
         ShortText          |-> po_doc[i].ShortText,
         DeletionIndicator  |-> po_doc[i].DeletionIndicator]]

\* The keys of every EKPO row, whatever its deletion indicator.
AllPoLines(std_po_doc) ==
    DropDuplicates([i \in 1..Len(std_po_doc) |->
        [PurchasingDocument |-> std_po_doc[i].PurchasingDocument,
         Item               |-> std_po_doc[i].Item]])

\* po_doc[po_doc['Deletion indicator'] == 'L'][['Purchasing Document', 'Item']].drop_duplicates()
DeletedPoLines(std_po_doc) ==
    LET marked == SelectSeq(std_po_doc, LAMBDA r : r.DeletionIndicator = "L")
    IN  DropDuplicates([i \in 1..Len(marked) |->
            [PurchasingDocument |-> marked[i].PurchasingDocument,
             Item               |-> marked[i].Item]])

\* mseg['PO_Number'] = ...astype(str); mseg['Item'] = ...astype(str).str.zfill(5)
StandardizeMovements(seg) ==
    [i \in 1..Len(seg) |->
        [PO_Number      |-> Str(seg[i].PurchasingDocument),
         Item           |-> zfill(Str(seg[i].Item), ItemWidth),
         Material       |-> seg[i].Material,
         Plant          |-> seg[i].Plant,
         DebitCreditInd |-> seg[i].DebitCreditInd,
         Quantity       |-> seg[i].Quantity,
         Amount         |-> seg[i].Amount,
         AmtInLocCur    |-> seg[i].AmtInLocCur]]

\* seg.merge(deleted_po_lines, left_on=['PO_Number', 'Item'],
\*           right_on=['Purchasing Document', 'Item'], how='left', indicator=True):
\* one row per match, or one 'left_only' row when nothing matches.
LeftMergeIndicator(seg, deleted_po_lines) ==
    Flatten([i \in 1..Len(seg) |->
        LET hits == SelectSeq(deleted_po_lines,
                        LAMBDA d : /\ d.PurchasingDocument = seg[i].PO_Number
                                   /\ d.Item = seg[i].Item)
        IN  IF hits = <<>>
            THEN << [row |-> seg[i], merge_ind |-> "left_only"] >>
            ELSE [j \in 1..Len(hits) |-> [row |-> seg[i], merge_ind |-> "both"]]])

\* The segment with the anti-join left out.
KeepDeleted(seg, deleted_po_lines) == seg

\* seg[seg['_merge'] == 'left_only'].drop(columns=[...])
ExcludeDeleted(seg, deleted_po_lines) ==
    LET joined == LeftMergeIndicator(seg, deleted_po_lines)
        kept   == SelectSeq(joined, LAMBDA m : m.merge_ind = "left_only")
    IN  [i \in 1..Len(kept) |-> kept[i].row]

\* x if x['Debit/Credit ind'] == 'S' else -x: not what the lambdas compute.
SignedUnlessS(x, ind) == IF ind = "S" THEN x ELSE -x

\* -x if x['Debit/Credit ind'] == 'H' else x
Signed(x, ind) == IF ind = "H" THEN -x ELSE x

\* The two 'Signed' columns; amount is the amount column of the movement kind.
AddSigned(seg, amount) ==
    [i \in 1..Len(seg) |->
        [PO_Number      |-> seg[i].PO_Number,
         Item           |-> seg[i].Item,
         Material       |-> seg[i].Material,
         Plant          |-> seg[i].Plant,
         DebitCreditInd |-> seg[i].DebitCreditInd,
         Quantity       |-> seg[i].Quantity,
         Amount         |-> seg[i].Amount,
         AmtInLocCur    |-> seg[i].AmtInLocCur,
         SignedQuantity |-> Signed(seg[i].Quantity, seg[i].DebitCreditInd),
         SignedAmount   |-> Signed(seg[i][amount], seg[i].DebitCreditInd)]]

\* 'Amt.in loc.cur.' is the amount of a goods receipt, 'Amount' of an invoice receipt.
GrAmount == "AmtInLocCur"

IrAmount == "Amount"

\* process_data(ekbe, po_doc); has_del_col: EKPO has a 'Deletion indicator' column.
process_data(ekbe, po_doc, has_del_col) ==
    LET mseg0   == StandardizeMovements(SelectSeq(ekbe, LAMBDA r : r.TransEventType = 1))
        rseg0   == StandardizeMovements(SelectSeq(ekbe, LAMBDA r : r.TransEventType = 2))
        std     == StandardizePoDoc(po_doc)
        deleted == IF has_del_col THEN DeletedPoLines(std) ELSE <<>>
        kept_po == IF has_del_col
                   THEN SelectSeq(std, LAMBDA r : r.DeletionIndicator # "L")
                   ELSE std
        filter  == has_del_col /\ deleted # <<>>
        mseg1   == IF filter THEN ExcludeDeleted(mseg0, deleted) ELSE mseg0
        rseg1   == IF filter THEN ExcludeDeleted(rseg0, deleted) ELSE rseg0
    IN  [mseg   |-> AddSigned(mseg1, GrAmount),
         rseg   |-> AddSigned(rseg1, IrAmount),
         po_doc |-> kept_po]

(***************************************************************************)
(* summarize_data                                                          *)
(***************************************************************************)

\* Tuples of (PO_Number, Item, Material[, Plant]) in the order groupby sorts them.
KeyLess(a, b) ==
    \E k \in 1..Len(a) :
        /\ \A j \in 1..(k - 1) : a[j] = b[j]
        /\ IF k <= 2 THEN StrLess(a[k], b[k]) ELSE TextLess(a[k], b[k])

\* The keys of S as a sequence in that order.
RECURSIVE SortKeys(_)
SortKeys(S) ==
    IF S = {} THEN <<>>
    ELSE LET m == CHOOSE x \in S : \A y \in S \ {x} : KeyLess(x, y)
         IN  <<m>> \o SortKeys(S \ {m})

GrKey(r) == <<r.PO_Number, r.Item, r.Material, r.Plant>>

IrKey(r) == <<r.PO_Number, r.Item, r.Material>>

\* The 'sum' of column col over the rows of one group.
GroupSum(group, col) == SumSeq([i \in 1..Len(group) |-> group[i][col]])

\* mseg.groupby(['PO_Number','Item','Material','Plant'], dropna=False).agg(sum).reset_index()
GrSummary(mseg) ==
    LET keys == SortKeys({GrKey(mseg[i]) : i \in 1..Len(mseg)})
        group(k) == SelectSeq(mseg, LAMBDA r : GrKey(r) = k)
    IN  [i \in 1..Len(keys) |->
            [PO_Number |-> keys[i][1], Item |-> keys[i][2],
             Material  |-> keys[i][3], Plant |-> keys[i][4],
             GR_Qty    |-> GroupSum(group(keys[i]), "SignedQuantity"),
             GR_Value  |-> GroupSum(group(keys[i]), "SignedAmount")]]

\* rseg.groupby(['PO_Number','Item','Material'], dropna=False).agg(sum).reset_index()
IrSummary(rseg) ==
    LET keys == SortKeys({IrKey(rseg[i]) : i \in 1..Len(rseg)})
        group(k) == SelectSeq(rseg, LAMBDA r : IrKey(r) = k)
    IN  [i \in 1..Len(keys) |->
            [PO_Number |-> keys[i][1], Item |-> keys[i][2],
             Material  |-> keys[i][3],
             IR_Qty    |-> GroupSum(group(keys[i]), "SignedQuantity"),
             IR_Value  |-> GroupSum(group(keys[i]), "SignedAmount")]]

summarize_data(mseg, rseg) ==
    [gr_summary |-> GrSummary(mseg), ir_summary |-> IrSummary(rseg)]

(***************************************************************************)
(* merge_summaries                                                         *)
(***************************************************************************)

\* A cell that may be NaN: <<>> is NaN, <<v>> holds v.
NaN == <<>>

fillna(cell, v) == IF cell = NaN THEN v ELSE cell[1]

\* A str cell that is NaN (a PO line with no EKPO row has no Short Text).
NaNText == "nan"

\* pd.merge(gr_summary, ir_summary, on=['PO_Number','Item','Material'], how='outer'):
\* the union of the keys in sorted order; under one key every GR row (one per
\* plant) is paired with the IR row of the key, and the side that has no row
\* for the key is NaN.
OuterMerge(gr_summary, ir_summary) ==
    LET keys == SortKeys({IrKey(gr_summary[i]) : i \in 1..Len(gr_summary)}
                         \cup {IrKey(ir_summary[i]) : i \in 1..Len(ir_summary)})
        under(k) ==
            LET L == SelectSeq(gr_summary, LAMBDA g : IrKey(g) = k)
                R == SelectSeq(ir_summary, LAMBDA r : IrKey(r) = k)
                row(g, r) ==
                    [PO_Number |-> k[1], Item |-> k[2], Material |-> k[3],
                     Plant    |-> IF g = NaN THEN NaN ELSE <<g[1].Plant>>,
                     GR_Qty   |-> IF g = NaN THEN NaN ELSE <<g[1].GR_Qty>>,
                     GR_Value |-> IF g = NaN THEN NaN ELSE <<g[1].GR_Value>>,
                     IR_Qty   |-> IF r = NaN THEN NaN ELSE <<r[1].IR_Qty>>,
                     IR_Value |-> IF r = NaN THEN NaN ELSE <<r[1].IR_Value>>]
            IN  IF L = <<>>
                THEN [j \in 1..Len(R) |-> row(NaN, <<R[j]>>)]
                ELSE Flatten([i \in 1..Len(L) |->
                        IF R = <<>>
                        THEN << row(<<L[i]>>, NaN) >>
                        ELSE [j \in 1..Len(R) |-> row(<<L[i]>>, <<R[j]>>)]])
    IN  Flatten([n \in 1..Len(keys) |-> under(keys[n])])

\* pd.merge(summary, po_doc[['Purchasing Document','Item','Short Text']],
\*          on=['Purchasing Document','Item'], how='left'):
\* one row per matching EKPO row, or one row with a NaN Short Text.
LeftMergePoDoc(merged, po_doc) ==
    Flatten([i \in 1..Len(merged) |->
        LET m    == merged[i]
            item == zfill(m.Item, ItemWidth)
            hits == SelectSeq(po_doc,
                        LAMBDA d : d.PurchasingDocument = m.PO_Number /\ d.Item = item)
            row(text) ==
                [PO |-> m.PO_Number, Line |-> item, LineShade |-> m.Material,
                 Description |-> text, Plant |-> m.Plant,
                 GoodsReceiptQty |-> m.GR_Qty, InvoiceQty |-> m.IR_Qty,
                 GoodsReceiptValue |-> m.GR_Value, InvoiceReceiptValue |-> m.IR_Value]
        IN  IF hits = <<>>
            THEN << row(NaNText) >>
            ELSE [j \in 1..Len(hits) |-> row(hits[j].ShortText)]])

\* The order of sort_values(by=['PO', 'Line']): both columns are str here.
SortKeyLess(a, b) ==
    \/ StrLess(a.PO, b.PO)
    \/ a.PO = b.PO /\ StrLess(a.Line, b.Line)

\* sort_values on several columns is stable: rows that tie keep their order.
RECURSIVE sort_values(_)
sort_values(rows) ==
    IF rows = <<>> THEN <<>>
    ELSE LET front == sort_values(SubSeq(rows, 1, Len(rows) - 1))
             x     == rows[Len(rows)]
             k     == Cardinality({i \in 1..Len(front) : ~SortKeyLess(x, front[i])})
         IN  SubSeq(front, 1, k) \o <<x>> \o SubSeq(front, k + 1, Len(front))

\* summary['Line'].astype(int); the four numeric columns .fillna(0); Plant.fillna("")
FinalizeRow(r) ==
    [PO |-> r.PO, Line |-> ToInt(r.Line), LineShade |-> r.LineShade,
     Description |-> r.Description, Plant |-> fillna(r.Plant, ""),
     GoodsReceiptQty     |-> fillna(r.GoodsReceiptQty, 0),
     InvoiceQty          |-> fillna(r.InvoiceQty, 0),
     GoodsReceiptValue   |-> fillna(r.GoodsReceiptValue, 0),
     InvoiceReceiptValue |-> fillna(r.InvoiceReceiptValue, 0)]

merge_summaries(gr_summary, ir_summary, po_doc) ==
    LET sorted == sort_values(LeftMergePoDoc(OuterMerge(gr_summary, ir_summary), po_doc))
    IN  [i \in 1..Len(sorted) |-> FinalizeRow(sorted[i])]

(***************************************************************************)
(* binary64, the float of Python and of a float64 column                   *)
(*                                                                         *)
(* An amount of the model is a whole number of cents, at least one cent in *)
(* magnitude when it is not zero, so the double of an amount, and every    *)
(* sum or difference of two such doubles, is a whole multiple of 2^-59.    *)
(* A double is held as [neg, mag]: its value is (-1)^neg * mag * 2^-60,    *)
(* with mag a natural number written in limbs of 15 bits, least            *)
(* significant limb first and without leading zero limbs (<<>> is 0).      *)
(* Results are rounded to 53 significant bits, nearest and ties to even,   *)
(* as IEEE 754 does; the amounts stay far from overflow.                   *)
(***************************************************************************)

\* Bits of the significand of a binary64.
Precision == 53

\* Bits of one limb, and the limbs below the binary point (4 * 15 = 60).
LimbBits == 15

FractionLimbs == 4

RECURSIVE Pow2(_)
Pow2(k) == IF k = 0 THEN 1 ELSE 2 * Pow2(k - 1)

Base == Pow2(LimbBits)

RECURSIVE Limbs(_)
Limbs(n) == IF n = 0 THEN <<>> ELSE <<n % Base>> \o Limbs(n \div Base)

RECURSIVE Normalize(_)
Normalize(a) ==
    IF a # <<>> /\ a[Len(a)] = 0 THEN Normalize(SubSeq(a, 1, Len(a) - 1)) ELSE a

Limb(a, i) == IF i <= Len(a) THEN a[i] ELSE 0

\* a + b + carry from limb i on.
RECURSIVE AddFrom(_, _, _, _)
AddFrom(a, b, i, carry) ==
    IF i > Len(a) /\ i > Len(b) THEN (IF carry = 0 THEN <<>> ELSE <<carry>>)
    ELSE LET t == Limb(a, i) + Limb(b, i) + carry
         IN  IF t >= Base
             THEN <<t - Base>> \o AddFrom(a, b, i + 1, 1)
             ELSE <<t>> \o AddFrom(a, b, i + 1, 0)

BigAdd(a, b) == AddFrom(a, b, 1, 0)

\* a - b - borrow from limb i on, for a >= b.
RECURSIVE SubFrom(_, _, _, _)
SubFrom(a, b, i, borrow) ==
    IF i > Len(a) THEN <<>>
    ELSE LET t == Limb(a, i) - Limb(b, i) - borrow
         IN  IF t < 0
             THEN <<t + Base>> \o SubFrom(a, b, i + 1, 1)
             ELSE <<t>> \o SubFrom(a, b, i + 1, 0)

BigSub(a, b) == Normalize(SubFrom(a, b, 1, 0))

\* a < b, for numbers without leading zero limbs.
BigLess(a, b) ==
    \/ Len(a) < Len(b)
    \/ /\ Len(a) = Len(b)
       /\ \E i \in 1..Len(a) :
            /\ a[i] < b[i]
            /\ \A j \in (i + 1)..Len(a) : a[j] = b[j]

\* Quotient and remainder of a by a small d, from the top limb down to limb i.
RECURSIVE DivFrom(_, _, _, _)
DivFrom(a, d, i, rem) ==
    IF i = 0 THEN [quot |-> <<>>, rem |-> rem]
    ELSE LET t    == rem * Base + a[i]
             rest == DivFrom(a, d, i - 1, t % d)
         IN  [quot |-> Append(rest.quot, t \div d), rem |-> rest.rem]

BigDivSmall(a, d) ==
    LET r == DivFrom(a, d, Len(a), 0) IN [quot |-> Normalize(r.quot), rem |-> r.rem]

RECURSIVE BitLenNat(_)
BitLenNat(n) == IF n = 0 THEN 0 ELSE 1 + BitLenNat(n \div 2)

BitLen(a) == IF a = <<>> THEN 0 ELSE LimbBits * (Len(a) - 1) + BitLenNat(a[Len(a)])

\* 2^k
BigPow2(k) == [i \in 1..(k \div LimbBits + 1) |->
                 IF i = k \div LimbBits + 1 THEN Pow2(k % LimbBits) ELSE 0]

\* a with its k lowest bits cleared.
ClearLow(a, k) ==
    Normalize([i \in 1..Len(a) |->
        IF LimbBits * i <= k THEN 0
        ELSE IF LimbBits * (i - 1) >= k THEN a[i]
        ELSE a[i] - (a[i] % Pow2(k - LimbBits * (i - 1)))])

\* Bit k of a (bit 0 is the lowest).
BitAt(a, k) == (Limb(a, k \div LimbBits + 1) \div Pow2(k % LimbBits)) % 2

\* a (plus something below its last bit when sticky) rounded to Precision
\* significant bits, nearest and ties to even.
RoundBig(a, sticky) ==
    IF BitLen(a) <= Precision THEN a
    ELSE LET drop  == BitLen(a) - Precision
             down  == ClearLow(a, drop)
             low   == BigSub(a, down)
             half  == BigPow2(drop - 1)
             up    == \/ BigLess(half, low)
                      \/ low = half /\ (sticky \/ BitAt(a, drop) = 1)
         IN  IF up THEN BigAdd(down, BigPow2(drop)) ELSE down

\* Cents in one currency unit.
CentsPerUnit == 100

\* The double nearest to cents/100: what float() gives for the decimal numeral
\* of an amount (a spreadsheet cell, the literal 0.05).
ToDouble(cents) ==
    LET n == IF cents < 0 THEN -cents ELSE cents
        q == BigDivSmall([i \in 1..FractionLimbs |-> 0] \o Limbs(n), CentsPerUnit)
    IN  [neg |-> cents < 0, mag |-> RoundBig(q.quot, q.rem # 0)]

\* x + y in binary64.
FloatAdd(x, y) ==
    IF x.neg = y.neg THEN [neg |-> x.neg, mag |-> RoundBig(BigAdd(x.mag, y.mag), FALSE)]
    ELSE IF x.mag = y.mag THEN [neg |-> FALSE, mag |-> <<>>]
    ELSE IF BigLess(x.mag, y.mag)
    THEN [neg |-> y.neg, mag |-> RoundBig(BigSub(y.mag, x.mag), FALSE)]
    ELSE [neg |-> x.neg, mag |-> RoundBig(BigSub(x.mag, y.mag), FALSE)]

FloatNeg(x) == [neg |-> ~x.neg /\ x.mag # <<>>, mag |-> x.mag]

\* x - y in binary64.
FloatSub(x, y) == FloatAdd(x, FloatNeg(y))

\* abs(x)
FloatAbs(x) == [neg |-> FALSE, mag |-> x.mag]

\* x > y
FloatGT(x, y) ==
    IF x.neg /\ y.neg THEN BigLess(x.mag, y.mag)
    ELSE IF x.neg THEN FALSE
    ELSE IF y.neg THEN TRUE
    ELSE BigLess(y.mag, x.mag)

(***************************************************************************)
(* apply_issue_logic                                                       *)
(***************************************************************************)

MsgNotPaid == "Invoice has not been paid. If you have received this order, send the invoice to AP. If you haven't received this order, contact Trade Ops to cancel the PO."

MsgShortSupply == "Short supply or credit note detected. Contact Trade Ops to reverse the goods receipt."

MsgOverReceipted == "You have goods receipted a higher quantity than you have been invoiced for. Contact Trade Ops to reverse the goods receipt and rectify. If this order has been split across multiple invoices, send all invoices to AP."

MsgUnderReceipted == "You have goods receipted a lower quantity than you have been invoiced for. Amend the quantity in the Purchase Order tile and goods receipt again. If a credit note is required instead, contact the supplier to request a credit."

MsgPriceDiscrepancy == "There is a discrepancy between the PO and the invoice price. Verify whether supplier pricing is correct and notify Trade Ops."

\* action.startswith("Invoice has not been paid"), for the values Action takes.
StartsWithNotPaid(action) == action = MsgNotPaid

\* (group['Goods Receipt Qty'] > 0) & (group['Invoice Qty'] == 0), for one row
GrNoIr(row) == row.GoodsReceiptQty > 0 /\ row.InvoiceQty = 0

\* The rows of summary.groupby('PO') for one PO, as positions in the table.
PoGroup(summary, po) == {j \in 1..Len(summary) : summary[j].PO = po}

\* group.index[-1]: the last row of the group, which the loop does not look at.
LastOf(group) == CHOOSE j \in group : \A k \in group : j >= k

\* group.index[0]: the first row of the group (the index of the table is unique).
FirstOf(group) == CHOOSE j \in group : \A k \in group : j <= k

\* abs(gr_val - ir_val) > price_tolerance, on the float64 values of the amounts
PriceDiscrepancy(gr_val, ir_val, price_tolerance) ==
    FloatGT(FloatAbs(FloatSub(ToDouble(gr_val), ToDouble(ir_val))),
            ToDouble(price_tolerance))

\* The Action the loop body leaves on row i.
RowAction(summary, i, price_tolerance) ==
    LET row   == summary[i]
        group == PoGroup(summary, row.PO)
        all_gr_no_ir  == \A j \in group : GrNoIr(summary[j])
        some_gr_no_ir == (\E j \in group : GrNoIr(summary[j])) /\ ~all_gr_no_ir
        gr_qty == row.GoodsReceiptQty
        ir_qty == row.InvoiceQty
    IN  IF all_gr_no_ir
        THEN (IF i = FirstOf(group) THEN MsgNotPaid ELSE "")
        ELSE IF some_gr_no_ir /\ gr_qty > 0 /\ ir_qty = 0 THEN MsgShortSupply
        ELSE IF gr_qty > ir_qty THEN MsgOverReceipted
        ELSE IF gr_qty < ir_qty THEN MsgUnderReceipted
        ELSE IF PriceDiscrepancy(row.GoodsReceiptValue, row.InvoiceReceiptValue,
                                 price_tolerance)
        THEN MsgPriceDiscrepancy
        ELSE ""

\* Classifies the rows and keeps the flagged ones only.
ClassifyAndKeepFlagged(summary, price_tolerance) ==
    LET flagged == SelectSeq([j \in 1..Len(summary) |-> j],
                             LAMBDA j : RowAction(summary, j, price_tolerance) # "")
    IN  [n \in 1..Len(flagged) |->
            [PO |-> summary[flagged[n]].PO, Line |-> summary[flagged[n]].Line,
             LineShade |-> summary[flagged[n]].LineShade,
             Description |-> summary[flagged[n]].Description,
             Plant |-> summary[flagged[n]].Plant,
             GoodsReceiptQty     |-> summary[flagged[n]].GoodsReceiptQty,
             InvoiceQty          |-> summary[flagged[n]].InvoiceQty,
             GoodsReceiptValue   |-> summary[flagged[n]].GoodsReceiptValue,
             InvoiceReceiptValue |-> summary[flagged[n]].InvoiceReceiptValue,
             Action |-> RowAction(summary, flagged[n], price_tolerance)]]

apply_issue_logic(summary, price_tolerance) ==
    [i \in 1..Len(summary) |->
        [PO |-> summary[i].PO, Line |-> summary[i].Line,
         LineShade |-> summary[i].LineShade, Description |-> summary[i].Description,
         Plant |-> summary[i].Plant,
         GoodsReceiptQty     |-> summary[i].GoodsReceiptQty,
         InvoiceQty          |-> summary[i].InvoiceQty,
         GoodsReceiptValue   |-> summary[i].GoodsReceiptValue,
         InvoiceReceiptValue |-> summary[i].InvoiceReceiptValue,
         Action |-> RowAction(summary, i, price_tolerance)]]

(***************************************************************************)
(* format_excel_file                                                       *)
(*                                                                         *)
(* The sheet has the header in row 1 and the rows of the table from row 2  *)
(* on: sheet row r holds table[r - 1].  The formatting kept here is the    *)
(* band colour of every data row, the PO groups recorded and the ranges of *)
(* Action cells merged.                                                    *)
(***************************************************************************)

\* fill_colors, as their RGB values
FillColors == <<"D9E1F2", "FFFFFF">>

\* The band colour is not advanced.
SameFill(fill_idx) == fill_idx

\* fill_idx = (fill_idx + 1) % len(fill_colors)
NextFill(fill_idx) == (fill_idx + 1) % Len(FillColors)

\* The state of the loop before the first row: last_po is None.
LoopStart ==
    [last_po |-> NaN, current_po_start |-> 2, fill_idx |-> 0, po_groups |-> <<>>,
     fill |-> <<>>]

\* for row in range(2, ws.max_row + 1): the state of the loop after the rows
\* from row on, st being the state before them.
RECURSIVE BandRows(_, _, _)
BandRows(table, row, st) ==
    IF row > Len(table) + 1 THEN st
    ELSE LET po   == <<table[row - 1].PO>>
             turn == po # st.last_po
             idx  == IF turn THEN NextFill(st.fill_idx) ELSE st.fill_idx
         IN  BandRows(table, row + 1,
                [last_po          |-> po,
                 current_po_start |-> IF turn THEN row ELSE st.current_po_start,
                 fill_idx         |-> idx,
                 po_groups        |-> IF turn /\ st.last_po # NaN
                                      THEN Append(st.po_groups,
                                                  [start |-> st.current_po_start,
                                                   end   |-> row - 1])
                                      ELSE st.po_groups,
                 fill             |-> Append(st.fill, FillColors[idx + 1])])

\* po_groups after the loop: the group that is open at the last row is recorded.
RecordedGroups(table) ==
    LET st == BandRows(table, 2, LoopStart)
    IN  IF st.last_po # NaN
        THEN Append(st.po_groups, [start |-> st.current_po_start, end |-> Len(table) + 1])
        ELSE st.po_groups

\* The groups merged when any action at all on the first row were enough.
MergedOnAnyAction(table, po_groups) ==
    SelectSeq(po_groups,
              LAMBDA g : table[g.start - 1].Action # "" /\ g.end > g.start)

\* The groups whose Action cells are merged: the Action of the first row
\* starts with "Invoice has not been paid" and the group has several rows.
MergedGroups(table, po_groups) ==
    SelectSeq(po_groups,
              LAMBDA g : /\ table[g.start - 1].Action # ""
                         /\ StartsWithNotPaid(table[g.start - 1].Action)
                         /\ g.end > g.start)

format_excel_file(table) ==
    [fill      |-> BandRows(table, 2, LoopStart).fill,
     po_groups |-> RecordedGroups(table),
     merged    |-> MergedGroups(table, RecordedGroups(table))]

(***************************************************************************)
(* generate_email_reports: the digest of every plant                       *)
(*                                                                         *)
(* A report is the sequence of the pieces appended to the HTML string: the *)
(* heading, then per PO its heading and either the one combined line or    *)
(* one block per row.                                                      *)
(***************************************************************************)

\* The table without the filter on Action.
AllRows(summary) == summary

\* summary[summary['Action'].notna() & (summary['Action'] != "")]
IssuesOnly(summary) == SelectSeq(summary, LAMBDA r : r.Action # "")

\* The strs of S in descending order.
RECURSIVE SortStrsDescending(_)
SortStrsDescending(S) ==
    IF S = {} THEN <<>>
    ELSE LET m == CHOOSE x \in S : \A y \in S \ {x} : StrLess(y, x)
         IN  <<m>> \o SortStrsDescending(S \ {m})

\* The strs of S in ascending order: the group keys of groupby('PO').
RECURSIVE SortStrs(_)
SortStrs(S) ==
    IF S = {} THEN <<>>
    ELSE LET m == CHOOSE x \in S : \A y \in S \ {x} : StrLess(x, y)
         IN  <<m>> \o SortStrs(S \ {m})

\* f"{x:.2f}" of an amount: sign, digits of the whole part, two decimals.
Format2f(cents) ==
    LET a == IF cents < 0 THEN 0 - cents ELSE cents
    IN  [neg |-> cents < 0, whole |-> Str(a \div CentsPerUnit),
         decimals |-> zfill(Str(a % CentsPerUnit), 2)]

\* int(x) of a float that holds a whole number
int(x) == x

LineBlock(row) ==
    [kind |-> "line", Line |-> int(row.Line), LineShade |-> row.LineShade,
     Description |-> row.Description,
     GoodsReceiptQty |-> int(row.GoodsReceiptQty),
     GoodsReceiptValue |-> Format2f(row.GoodsReceiptValue),
     InvoiceQty |-> int(row.InvoiceQty),
     InvoiceReceiptValue |-> Format2f(row.InvoiceReceiptValue),
     Action |-> row.Action]

\* One block per row, whatever the actions of the group.
PoBlockPerLine(po, po_group) ==
    << [kind |-> "po", PO |-> po] >> \o
    [k \in 1..Len(po_group) |-> LineBlock(po_group[k])]

\* The pieces one PO of one plant adds to the report.
PoBlock(po, po_group) ==
    << [kind |-> "po", PO |-> po] >> \o
    (IF \A k \in 1..Len(po_group) : StartsWithNotPaid(po_group[k].Action)
     THEN << [kind |-> "combined", Action |-> po_group[1].Action] >>
     ELSE [k \in 1..Len(po_group) |-> LineBlock(po_group[k])])

PlantReport(plant, plant_group) ==
    LET pos == SortStrs({plant_group[k].PO : k \in 1..Len(plant_group)})
    IN  << [kind |-> "h2", Plant |-> plant] >> \o
        Flatten([n \in 1..Len(pos) |->
            PoBlock(pos[n], SelectSeq(plant_group, LAMBDA r : r.PO = pos[n]))])

\* plant_po_issues: a report for every plant that issues_only.groupby('Plant') yields.
PlantPoIssues(summary) ==
    LET issues_only == IssuesOnly(summary)
    IN  [plant \in {issues_only[k].Plant : k \in 1..Len(issues_only)} |->
            PlantReport(plant, SelectSeq(issues_only, LAMBDA r : r.Plant = plant))]

(***************************************************************************)
(* The program state                                                       *)
(***************************************************************************)

VARIABLES
    mode,             \* "GRIR": run_analysis is the program; "app": app.py calls it
    ekbe,             \* the EKBE movement rows, as read
    po_doc,           \* the EKPO rows, as read
    has_del_col,      \* EKPO has a 'Deletion indicator' column
    contacts,         \* the rows of email.xlsx, as read
    send_emails,      \* notification dispatch is enabled
    price_tolerance,  \* in cents
    pc,               \* where the run is
    mseg, rseg,       \* process_data: goods receipts, invoice receipts
    po_lines,         \* process_data: the EKPO rows kept
    gr_summary, ir_summary,
    summary,          \* the summary table
    summary_file,     \* the summary workbook written: <<>> or <<table>>
    plant_po_issues,  \* plant -> report
    i,                \* the contact row of the dispatch loop
    dispatches,       \* the dispatch attempts made, in order
    plant_files,      \* plant -> the rows of its GRIR_Report_<plant>.xlsx
    summary_format,   \* the formatting of the summary workbook: <<>> or <<formatting>>
    plant_formats,    \* plant -> the formatting of its GRIR_Report_<plant>.xlsx
    returned          \* what run_analysis returned: <<>> or <<table>>

vars == <<mode, ekbe, po_doc, has_del_col, contacts, send_emails, price_tolerance,
          pc, mseg, rseg, po_lines, gr_summary, ir_summary, summary, summary_file,
          plant_po_issues, i, dispatches, plant_files, summary_format, plant_formats,
          returned>>

formats == <<summary_format, plant_formats>>

inputs == <<mode, ekbe, po_doc, has_del_col, contacts, send_emails, price_tolerance>>

pipeline == <<mseg, rseg, po_lines, gr_summary, ir_summary>>

\* A function with no argument: an empty dict, a directory without reports.
Empty == [x \in {} |-> x]

(***************************************************************************)
(* The contacts and the dispatch loop                                      *)
(***************************************************************************)

\* A Plant cell of email.xlsx is [text, padded]: padded says that white space
\* surrounds the text.  str.strip() removes it.
strip(cell) == cell.text

\* The cell as a str is equal to the str plant.
CellIs(cell, plant) == ~cell.padded /\ cell.text = plant

\* load_data strips the Plant column; app.py reads email.xlsx again, as it is.
ContactPlantIs(row, plant) ==
    IF mode = "GRIR" THEN strip(row.Plant) = plant ELSE CellIs(row.Plant, plant)

\* plant_po_issues.get(plant) for the contact row: <<>> is None.
MessageBody(row) ==
    LET hit == {p \in DOMAIN plant_po_issues : ContactPlantIs(row, p)}
    IN  IF hit = {} THEN <<>> ELSE << plant_po_issues[CHOOSE p \in hit : TRUE] >>

\* summary[summary['Plant'] == plant]
PlantDf(table, row) == SelectSeq(table, LAMBDA r : ContactPlantIs(row, r.Plant))

\* The table the loop reads: summary, or the summary_df run_analysis returned.
LoopTable == IF pc = "custom_emails" THEN returned[1] ELSE summary

InLoop == pc \in {"emails", "custom_emails"} /\ i <= Len(contacts)

\* [to_email] + ([cc_email] if cc_email else [])
Recipients(row) == <<row.Email>> \o (IF row.CC = NaN THEN <<>> ELSE row.CC)

\* plant_df.to_excel(plant_file), format_excel_file(plant_file) and the message
\* handed to the transport:
\* ok says that the transport delivered it.
Attempt(ok) ==
    LET row  == contacts[i]
        file == PlantDf(LoopTable, row)
    IN  /\ plant_files' = [p \in DOMAIN plant_files \cup {strip(row.Plant)} |->
                              IF p = strip(row.Plant) THEN file ELSE plant_files[p]]
        /\ plant_formats' = [p \in DOMAIN plant_formats \cup {strip(row.Plant)} |->
                              IF p = strip(row.Plant) THEN format_excel_file(file)
                              ELSE plant_formats[p]]
        /\ dispatches' = Append(dispatches,
                            [contact |-> i, To |-> row.Email, recipients |-> Recipients(row),
                             body |-> MessageBody(row)[1], attachment |-> file, ok |-> ok])

\* "Sent GRIR summary to ..."
DispatchSent ==
    /\ InLoop
    /\ MessageBody(contacts[i]) # <<>>
    /\ Attempt(TRUE)
    /\ i' = i + 1
    /\ UNCHANGED <<inputs, pipeline, pc, summary, summary_file, summary_format,
                   plant_po_issues, returned>>

\* The transport raises and nothing catches the exception: the run is over.
DispatchRaises ==
    /\ InLoop
    /\ MessageBody(contacts[i]) # <<>>
    /\ Attempt(FALSE)
    /\ pc' = "raised"
    /\ UNCHANGED <<inputs, pipeline, i, summary, summary_file, summary_format,
                   plant_po_issues, returned>>

\* The transport raises; the exception is caught: "Failed to send email to ..."
DispatchFailed ==
    /\ InLoop
    /\ MessageBody(contacts[i]) # <<>>
    /\ Attempt(FALSE)
    /\ i' = i + 1
    /\ UNCHANGED <<inputs, pipeline, pc, summary, summary_file, summary_format,
                   plant_po_issues, returned>>

\* "No issues for plant ..., no email sent."
DispatchNoIssues ==
    /\ InLoop
    /\ MessageBody(contacts[i]) = <<>>
    /\ i' = i + 1
    /\ UNCHANGED <<inputs, pipeline, pc, summary, summary_file, plant_po_issues,
                   dispatches, plant_files, formats, returned>>

LoopEnd ==
    /\ pc \in {"emails", "custom_emails"}
    /\ i > Len(contacts)
    /\ pc' = IF pc = "emails" THEN "complete" ELSE "done"
    /\ UNCHANGED <<inputs, pipeline, summary, summary_file, plant_po_issues, i,
                   dispatches, plant_files, formats, returned>>

(***************************************************************************)
(* run_analysis                                                            *)
(***************************************************************************)

\* load_data .. format_excel_file(output_summary_path)
RunAnalysisCore ==
    /\ pc = "start"
    /\ LET p == process_data(ekbe, po_doc, has_del_col)
           s == summarize_data(p.mseg, p.rseg)
           m == merge_summaries(s.gr_summary, s.ir_summary, p.po_doc)
           c == apply_issue_logic(m, price_tolerance)
       IN  /\ mseg' = p.mseg
           /\ rseg' = p.rseg
           /\ po_lines' = p.po_doc
           /\ gr_summary' = s.gr_summary
           /\ ir_summary' = s.ir_summary
           /\ summary' = c
           /\ summary_file' = <<c>>
           /\ summary_format' = << format_excel_file(c) >>
    /\ pc' = "reports"
    /\ UNCHANGED <<inputs, plant_po_issues, i, dispatches, plant_files, plant_formats,
                   returned>>

\* generate_email_reports, up to its loop; app.py passes send_emails=False.
GenerateReports ==
    /\ pc = "reports"
    /\ plant_po_issues' = PlantPoIssues(summary)
    /\ i' = 1
    /\ pc' = IF mode = "GRIR" /\ send_emails THEN "emails" ELSE "complete"
    /\ UNCHANGED <<inputs, pipeline, summary, summary_file, dispatches, plant_files,
                   formats, returned>>

\* print("GRIR analysis complete."); return summary
Return ==
    /\ pc = "complete"
    /\ returned' = <<summary>>
    /\ pc' = IF mode = "app" /\ send_emails THEN "custom" ELSE "done"
    /\ UNCHANGED <<inputs, pipeline, summary, summary_file, plant_po_issues, i,
                   dispatches, plant_files, formats>>

\* app.py, send_custom_emails up to its loop
SendCustomEmails ==
    /\ pc = "custom"
    /\ plant_po_issues' = PlantPoIssues(returned[1])
    /\ i' = 1
    /\ pc' = "custom_emails"
    /\ UNCHANGED <<inputs, pipeline, summary, summary_file, dispatches, plant_files,
                   formats, returned>>

(***************************************************************************)
(* The runs of run_analysis over small input files                         *)
(*                                                                         *)
(* Amounts are cents.  The amounts of the movement rows are multiples of   *)
(* 25 cents, which a double holds exactly, so that the sums of the         *)
(* aggregation are the sums of the program.                                *)
(***************************************************************************)

MaxMovements == 2

\* A goods receipt row of EKBE.
GR(po, item, material, plant, ind) ==
    [TransEventType |-> 1, PurchasingDocument |-> po, Item |-> item,
     Material |-> material, Plant |-> plant, DebitCreditInd |-> ind,
     Quantity |-> 5, Amount |-> 50, AmtInLocCur |-> 25]

\* An invoice receipt row of EKBE.
IR(po, item, material, ind, amount) ==
    [TransEventType |-> 2, PurchasingDocument |-> po, Item |-> item,
     Material |-> material, Plant |-> "P1", DebitCreditInd |-> ind,
     Quantity |-> 5, Amount |-> amount, AmtInLocCur |-> 75]

MovementRows ==
    { GR(4501, 10, "M1", "P1", "S"), GR(4501, 10, "M1", "P2", "S"),
      GR(4501, 10, "M1", "P1", "H"), GR(4501, 10, "M2", "P1", "h"),
      GR(4501, 20000, "M1", "P1", "S"), GR(4501, 100000, "M1", "P1", "S"),
      GR(4502, 10, "M1", "P2", "S"),
      IR(4501, 10, "M1", "S", 25), IR(4501, 10, "M1", "H", 25),
      IR(4501, 10, "M1", "S", 50), IR(4501, 20000, "M1", "S", 25),
      IR(4501, 100000, "M1", "S", 25), IR(4502, 10, "M1", "S", 25),
      [TransEventType |-> 3, PurchasingDocument |-> 4501, Item |-> 10,
       Material |-> "M1", Plant |-> "P1", DebitCreditInd |-> "S",
       Quantity |-> 5, Amount |-> 25, AmtInLocCur |-> 25] }

\* A row of EKPO.
EKPO(po, item, text, del) ==
    [PurchasingDocument |-> po, Item |-> item, ShortText |-> text,
     DeletionIndicator |-> del]

\* The EKPO files: rows, and whether the 'Deletion indicator' column exists.
PoDocFiles ==
    { [has_del_col |-> TRUE,  rows |-> <<>>],
      [has_del_col |-> TRUE,  rows |-> << EKPO(4501, 10, "T1", "") >>],
      [has_del_col |-> TRUE,  rows |-> << EKPO(4501, 10, "T2", "L") >>],
      [has_del_col |-> TRUE,  rows |-> << EKPO(4501, 10, "T2", "L"), EKPO(4501, 10, "T2", "L") >>],
      [has_del_col |-> TRUE,  rows |-> << EKPO(4501, 10, "T1", ""), EKPO(4501, 10, "T2", "") >>],
      [has_del_col |-> TRUE,  rows |-> << EKPO(4501, 10, "T1", ""), EKPO(4501, 10, "T2", "L") >>],
      [has_del_col |-> TRUE,  rows |-> << EKPO(4501, 100000, "T2", "L"), EKPO(4501, 20000, "T1", "") >>],
      [has_del_col |-> TRUE,  rows |-> << EKPO(4502, 10, "T2", "L"), EKPO(4501, 10, "T1", "") >>],
      [has_del_col |-> FALSE, rows |-> << EKPO(4501, 10, "T1", "") >>] }

\* A row of email.xlsx.
Contact(plant, padded, email, cc) ==
    [Plant |-> [text |-> plant, padded |-> padded], Email |-> email, CC |-> cc]

Idle ==
    /\ mseg = <<>> /\ rseg = <<>> /\ po_lines = <<>>
    /\ gr_summary = <<>> /\ ir_summary = <<>>
    /\ summary_file = <<>>
    /\ plant_po_issues = Empty
    /\ i = 1
    /\ dispatches = <<>>
    /\ plant_files = Empty
    /\ summary_format = <<>>
    /\ plant_formats = Empty
    /\ returned = <<>>

Init ==
    /\ mode = "GRIR"
    /\ ekbe \in SeqsUpTo(MovementRows, MaxMovements)
    /\ \E f \in PoDocFiles : po_doc = f.rows /\ has_del_col = f.has_del_col
    /\ contacts = << Contact("P1", TRUE, "a@x", NaN), Contact("P2", FALSE, "b@x", <<"c@x">>),
                     Contact("P3", FALSE, "d@x", NaN) >>
    /\ send_emails \in BOOLEAN
    /\ price_tolerance = 5
    /\ pc = "start"
    /\ summary = <<>>
    /\ Idle

Next ==
    \/ RunAnalysisCore
    \/ GenerateReports
    \/ DispatchSent
    \/ DispatchFailed
    \/ DispatchNoIssues
    \/ LoopEnd
    \/ Return

Spec == Init /\ [][Next]_vars

(***************************************************************************)
(* apply_issue_logic over small summary tables                             *)
(*                                                                         *)
(* The tables are in the order merge_summaries leaves them in.  The        *)
(* figures include values whose difference is the tolerance, one cent more *)
(* and one cent less, on either side.                                      *)
(***************************************************************************)

MaxRows == 2

\* (PO, Line) of a row, in the order of the table.
TableKeys == << <<Str(4501), 10>>, <<Str(4501), 20>>, <<Str(4502), 10>> >>

\* <<Goods Receipt Qty, Invoice Qty, Goods Receipt Value, Invoice Receipt Value>>
Figures ==
    { <<10, 10, 10000, 10000>>, <<5, 0, 5000, 0>>, <<10, 5, 10000, 5000>>,
      <<5, 10, 5000, 10000>>, <<0, 5, 0, 5000>>,
      <<1, 1, 105, 100>>, <<1, 1, 100, 105>>, <<1, 1, 100, 106>>, <<1, 1, 106, 100>>,
      <<1, 1, 5000, 5004>>, <<1, 1, 5000, 5006>>, <<1, 1, 5005, 5000>> }

\* run_analysis takes any number as price_tolerance; it is not validated.
Tolerances == {-5, 0, 5, 6}

SummaryRow(k, plant, f) ==
    [PO |-> TableKeys[k][1], Line |-> TableKeys[k][2], LineShade |-> "M1",
     Description |-> "T1", Plant |-> plant,
     GoodsReceiptQty |-> f[1], InvoiceQty |-> f[2],
     GoodsReceiptValue |-> f[3], InvoiceReceiptValue |-> f[4]]

\* The tables of at most MaxRows rows, each row a <<plant, figures>> of kinds.
Tables(kinds) ==
    UNION { { [n \in 1..len |-> SummaryRow(ks[n], rs[n][1], rs[n][2])] :
                ks \in {q \in [1..len -> 1..Len(TableKeys)] :
                            \A n \in 1..len - 1 : q[n] <= q[n + 1]},
                rs \in [1..len -> kinds] } : len \in 0..MaxRows }

InitClassify ==
    /\ mode = "GRIR"
    /\ ekbe = <<>> /\ po_doc = <<>> /\ has_del_col = TRUE
    /\ contacts = <<>>
    /\ send_emails = FALSE
    /\ price_tolerance \in Tolerances
    /\ pc = "classify"
    /\ summary \in Tables({"P1"} \X Figures)
    /\ Idle

\* summary = apply_issue_logic(summary, price_tolerance)
ApplyIssueLogic ==
    /\ pc = "classify"
    /\ summary' = apply_issue_logic(summary, price_tolerance)
    /\ pc' = "classified"
    /\ UNCHANGED <<inputs, pipeline, summary_file, plant_po_issues, i, dispatches,
                   plant_files, formats, returned>>

\* apply_issue_logic called again on the table it returned, same tolerance
ReapplyIssueLogic ==
    /\ pc = "classified"
    /\ summary' = apply_issue_logic(summary, price_tolerance)
    /\ pc' = "reclassified"
    /\ UNCHANGED <<inputs, pipeline, summary_file, plant_po_issues, i, dispatches,
                   plant_files, formats, returned>>

NextClassify ==
    \/ ApplyIssueLogic
    \/ ReapplyIssueLogic

SpecClassify == InitClassify /\ [][NextClassify]_vars

(***************************************************************************)
(* The reports and the dispatch loop over small classified tables, from    *)
(* run_analysis itself and from app.py                                     *)
(***************************************************************************)

\* A row without a goods receipt has no plant.
ReportRows ==
    ({"P1", "P2"} \X { <<10, 10, 10000, 10000>>, <<5, 0, 5000, 0>>, <<10, 5, 10000, 5000>> })
    \cup { <<"", <<0, 5, 0, 5000>> >> }

ContactLists ==
    { << Contact("P1", TRUE, "a@x", NaN), Contact("P2", FALSE, "b@x", <<"c@x">>),
         Contact("P3", FALSE, "d@x", NaN) >>,
      << Contact("P2", FALSE, "b@x", NaN), Contact("P2", FALSE, "e@x", NaN) >>,
      << Contact("P3", FALSE, "d@x", NaN), Contact("P1", FALSE, "a@x", <<"c@x">>) >> }

InitReport ==
    /\ mode \in {"GRIR", "app"}
    /\ ekbe = <<>> /\ po_doc = <<>> /\ has_del_col = TRUE
    /\ contacts \in ContactLists
    /\ send_emails \in BOOLEAN
    /\ price_tolerance = 5
    /\ pc = "reports"
    /\ \E t \in Tables(ReportRows) :
            summary = apply_issue_logic(t, price_tolerance)
    /\ mseg = <<>> /\ rseg = <<>> /\ po_lines = <<>>
    /\ gr_summary = <<>> /\ ir_summary = <<>>
    /\ summary_file = <<summary>>
    /\ plant_po_issues = Empty
    /\ i = 1
    /\ dispatches = <<>>
    /\ plant_files = Empty
    /\ summary_format = << format_excel_file(summary) >>
    /\ plant_formats = Empty
    /\ returned = <<>>

NextReport ==
    \/ GenerateReports
    \/ DispatchSent
    \/ DispatchFailed
    \/ DispatchNoIssues
    \/ LoopEnd
    \/ Return
    \/ SendCustomEmails

SpecReport == InitReport /\ [][NextReport]_vars

(***************************************************************************)
(* The classification rules                                                *)
(***************************************************************************)

\* C1: after apply_issue_logic, in a PO whose rows all have Goods Receipt
\* Qty > 0 and Invoice Qty = 0, the first row of the PO in the order of the
\* table carries the "Invoice has not been paid" action and every other row
\* of the PO has an empty Action; the only row of a one-row PO carries it.
C1_NotPaidOnFirstRowOnly ==
    pc = "classified" =>
        \A j \in 1..Len(summary) :
            (\A k \in 1..Len(summary) :
                summary[k].PO = summary[j].PO =>
                    summary[k].GoodsReceiptQty > 0 /\ summary[k].InvoiceQty = 0)
            => summary[j].Action =
                  (IF \E k \in 1..(j - 1) : summary[k].PO = summary[j].PO
                   THEN "" ELSE MsgNotPaid)

\* A PO of two rows, both received and not invoiced, has been classified.
C1_TwoRowPoNotPaid ==
    /\ pc = "classified"
    /\ Len(summary) = 2
    /\ summary[1].PO = summary[2].PO
    /\ \A k \in 1..2 : summary[k].GoodsReceiptQty > 0 /\ summary[k].InvoiceQty = 0
    /\ summary[1].Action = MsgNotPaid
    /\ summary[2].Action = ""

\* C2: a row of a PO that is not entirely received-without-invoice gets the
\* action of the first rule that matches, in the order short supply,
\* over-receipted, under-receipted, price discrepancy (the values differ by
\* more than the tolerance), none.  The amounts are compared as the decimal
\* amounts they are, in cents.
C2_FirstMatchingRule ==
    pc = "classified" =>
        \A j \in 1..Len(summary) :
            LET row      == summary[j]
                grp      == {k \in 1..Len(summary) : summary[k].PO = row.PO}
                noIr(k)  == summary[k].GoodsReceiptQty > 0 /\ summary[k].InvoiceQty = 0
                diff     == row.GoodsReceiptValue - row.InvoiceReceiptValue
                distance == IF diff < 0 THEN -diff ELSE diff
            IN  (\E k \in grp : ~noIr(k)) =>
                    row.Action =
                        IF (\E k \in grp : noIr(k)) /\ noIr(j) THEN MsgShortSupply
                        ELSE IF row.GoodsReceiptQty > row.InvoiceQty THEN MsgOverReceipted
                        ELSE IF row.GoodsReceiptQty < row.InvoiceQty THEN MsgUnderReceipted
                        ELSE IF distance > price_tolerance THEN MsgPriceDiscrepancy
                        ELSE ""

\* C3: a row that reaches the price check (equal quantities, in a PO that is
\* not entirely received-without-invoice) whose values differ by exactly the
\* tolerance, whichever is the larger, has no action, and one whose values
\* differ by the tolerance and one cent has the price discrepancy action.
C3_StrictTolerance ==
    pc = "classified" =>
        \A j \in 1..Len(summary) :
            LET row      == summary[j]
                grp      == {k \in 1..Len(summary) : summary[k].PO = row.PO}
                noIr(k)  == summary[k].GoodsReceiptQty > 0 /\ summary[k].InvoiceQty = 0
                diff     == row.GoodsReceiptValue - row.InvoiceReceiptValue
                distance == IF diff < 0 THEN -diff ELSE diff
            IN  (row.GoodsReceiptQty = row.InvoiceQty /\ \E k \in grp : ~noIr(k)) =>
                    /\ distance = price_tolerance => row.Action = ""
                    /\ distance = price_tolerance + 1 => row.Action = MsgPriceDiscrepancy

(***************************************************************************)
(* Normalisation, aggregation and merge                                    *)
(***************************************************************************)

\* The rows of a table whose PO and line are po and item, as numbers.
AggregateRowsOf(table, po, item) ==
    {j \in 1..Len(table) : table[j].PO_Number = Str(po) /\ ToInt(table[j].Item) = item}

SummaryRowsOf(po, item) ==
    {j \in 1..Len(summary) : summary[j].PO = Str(po) /\ summary[j].Line = item}

\* C4: once run_analysis has built its tables, a PO line that EKPO marks
\* with deletion indicator 'L' has no row in the goods receipt aggregate, in
\* the invoice receipt aggregate or in the summary table, whatever movement
\* rows EKBE holds for it.
C4_DeletedLinesAppearNowhere ==
    (pc # "start" /\ has_del_col) =>
        \A d \in 1..Len(po_doc) :
            po_doc[d].DeletionIndicator = "L" =>
                /\ AggregateRowsOf(gr_summary, po_doc[d].PurchasingDocument, po_doc[d].Item) = {}
                /\ AggregateRowsOf(ir_summary, po_doc[d].PurchasingDocument, po_doc[d].Item) = {}
                /\ SummaryRowsOf(po_doc[d].PurchasingDocument, po_doc[d].Item) = {}

\* A run over a goods receipt and an invoice receipt, one of them for a
\* deleted PO line and the other for a line that is kept.
C4_MovementOfDeletedLineDropped ==
    /\ pc # "start" /\ has_del_col
    /\ \E d \in 1..Len(po_doc), m, n \in 1..Len(ekbe) :
        /\ po_doc[d].DeletionIndicator = "L"
        /\ ekbe[m].PurchasingDocument = po_doc[d].PurchasingDocument
        /\ ekbe[m].Item = po_doc[d].Item
        /\ ekbe[m].TransEventType \in {1, 2}
        /\ ekbe[n].TransEventType \in {1, 2}
        /\ ekbe[n].TransEventType # ekbe[m].TransEventType
        /\ SummaryRowsOf(ekbe[n].PurchasingDocument, ekbe[n].Item) # {}

\* The (PO, line, material) keys of an aggregate, the line as a number.
KeysOf(table) ==
    {<<table[j].PO_Number, ToInt(table[j].Item), table[j].Material>> : j \in 1..Len(table)}

\* C5: every (PO, line, material) key of the goods receipt aggregate or of
\* the invoice receipt aggregate is the key of exactly one row of the summary
\* table, and the quantity and value of a side that has no aggregate for the
\* key are 0 in that row.
C5_EveryKeyExactlyOnce ==
    pc # "start" =>
        \A key \in KeysOf(gr_summary) \cup KeysOf(ir_summary) :
            LET rows == {j \in 1..Len(summary) :
                            <<summary[j].PO, summary[j].Line, summary[j].LineShade>> = key}
            IN  /\ Cardinality(rows) = 1
                /\ \A j \in rows :
                    /\ key \notin KeysOf(gr_summary) =>
                          summary[j].GoodsReceiptQty = 0 /\ summary[j].GoodsReceiptValue = 0
                    /\ key \notin KeysOf(ir_summary) =>
                          summary[j].InvoiceQty = 0 /\ summary[j].InvoiceReceiptValue = 0

\* C6: the summary table is in ascending order of PO and, within a PO, in
\* ascending order of the line number.
C6_SortedByPoThenLine ==
    pc # "start" =>
        \A j, k \in 1..Len(summary) :
            j < k =>
                \/ ToInt(summary[j].PO) < ToInt(summary[k].PO)
                \/ summary[j].PO = summary[k].PO /\ summary[j].Line <= summary[k].Line

\* C7: a goods receipt kept by process_data has signed quantity -Quantity and
\* signed amount -(Amt.in loc.cur.) if its debit/credit indicator is 'H',
\* and Quantity and Amt.in loc.cur. otherwise; an invoice receipt likewise,
\* with Amount as its amount.
C7_SignedByIndicator ==
    pc # "start" =>
        /\ \A j \in 1..Len(mseg) :
            IF mseg[j].DebitCreditInd = "H"
            THEN /\ mseg[j].SignedQuantity = 0 - mseg[j].Quantity
                 /\ mseg[j].SignedAmount = 0 - mseg[j].AmtInLocCur
            ELSE /\ mseg[j].SignedQuantity = mseg[j].Quantity
                 /\ mseg[j].SignedAmount = mseg[j].AmtInLocCur
        /\ \A j \in 1..Len(rseg) :
            IF rseg[j].DebitCreditInd = "H"
            THEN /\ rseg[j].SignedQuantity = 0 - rseg[j].Quantity
                 /\ rseg[j].SignedAmount = 0 - rseg[j].Amount
            ELSE /\ rseg[j].SignedQuantity = rseg[j].Quantity
                 /\ rseg[j].SignedAmount = rseg[j].Amount

\* A credit goods receipt and a debit invoice receipt have been signed.
C7_CreditReceiptDebitInvoice ==
    /\ pc # "start"
    /\ \E j \in 1..Len(mseg) :
        mseg[j].DebitCreditInd = "H" /\ mseg[j].SignedAmount = 0 - mseg[j].AmtInLocCur
    /\ \E j \in 1..Len(rseg) :
        rseg[j].DebitCreditInd = "S" /\ rseg[j].SignedAmount = rseg[j].Amount

(***************************************************************************)
(* The digest and the notification step                                    *)
(***************************************************************************)

\* The rows of the summary table at a plant that carry an action.
FlaggedAt(plant) ==
    {j \in 1..Len(summary) : summary[j].Plant = plant /\ summary[j].Action # ""}

\* The plants of the summary table and of the contact rows.
PlantsSeen ==
    {summary[j].Plant : j \in 1..Len(summary)}
        \cup {contacts[k].Plant.text : k \in 1..Len(contacts)}

\* The positions of the PO headings in a report, and the end of the block
\* that starts at heading p.
Headings(report) == {p \in 1..Len(report) : report[p].kind = "po"}

BlockEnd(report, p) ==
    IF \E q \in Headings(report) : q > p
    THEN (CHOOSE q \in Headings(report) : q > p /\ \A r \in Headings(report) : r > p => q <= r) - 1
    ELSE Len(report)

\* C8: once the digest is built, the report of a plant holds exactly one PO
\* block for each PO that has a flagged row at the plant, the PO blocks are
\* in ascending order of PO, and the line blocks of a PO block are the
\* flagged rows of the PO at the plant in the order of the summary table.
C8_OneBlockPerFlaggedPo ==
    pc # "reports" =>
        \A plant \in DOMAIN plant_po_issues :
            LET report == plant_po_issues[plant]
                heads  == Headings(report)
            IN  /\ \A j \in FlaggedAt(plant) :
                      Cardinality({p \in heads : report[p].PO = summary[j].PO}) = 1
                /\ \A p \in heads : \E j \in FlaggedAt(plant) : summary[j].PO = report[p].PO
                /\ \A p, q \in heads : p < q => ToInt(report[p].PO) < ToInt(report[q].PO)
                /\ \A p \in heads :
                      LET rows  == SelectSeq([j \in 1..Len(summary) |-> j],
                                             LAMBDA j : j \in FlaggedAt(plant)
                                                        /\ summary[j].PO = report[p].PO)
                          lines == SelectSeq(SubSeq(report, p + 1, BlockEnd(report, p)),
                                             LAMBDA b : b.kind = "line")
                      IN  \/ /\ lines = <<>>
                             /\ \A n \in 1..Len(rows) : summary[rows[n]].Action = MsgNotPaid
                          \/ /\ Len(lines) = Len(rows)
                             /\ \A n \in 1..Len(rows) :
                                   /\ lines[n].Line = summary[rows[n]].Line
                                   /\ lines[n].Action = summary[rows[n]].Action

\* The digest of a plant with two flagged POs has been built.
C8_PlantWithTwoFlaggedPos ==
    /\ pc # "reports"
    /\ \E plant \in DOMAIN plant_po_issues :
        /\ \E j, k \in FlaggedAt(plant) : summary[j].PO # summary[k].PO
        /\ Cardinality(Headings(plant_po_issues[plant])) = 2

\* C9: once the digest is built, a plant has an entry in it exactly if one of
\* its rows is flagged, and the entry is not empty; no dispatch is attempted
\* and no per-plant report is written for a contact row whose plant has no
\* flagged row.
C9_NoDigestWithoutFlaggedRow ==
    /\ pc # "reports" =>
          \A plant \in PlantsSeen \cup DOMAIN plant_po_issues :
              /\ plant \in DOMAIN plant_po_issues <=> FlaggedAt(plant) # {}
              /\ plant \in DOMAIN plant_po_issues => plant_po_issues[plant] # <<>>
    /\ \A d \in 1..Len(dispatches) :
          FlaggedAt(contacts[dispatches[d].contact].Plant.text) # {}
    /\ \A plant \in DOMAIN plant_files : FlaggedAt(plant) # {}

\* The loop is over: a contact row whose plant has rows, none of them flagged,
\* was passed over, and another contact row was served.
C9_UnflaggedPlantPassedOver ==
    /\ pc = "done"
    /\ dispatches # <<>>
    /\ \E k \in 1..Len(contacts) :
        /\ \E j \in 1..Len(summary) : summary[j].Plant = contacts[k].Plant.text
        /\ FlaggedAt(contacts[k].Plant.text) = {}
        /\ \A d \in 1..Len(dispatches) : dispatches[d].contact # k
        /\ contacts[k].Plant.text \notin DOMAIN plant_files

\* The contact rows the loop has gone past.
Passed == IF pc \in {"emails", "custom_emails"} THEN 1..(i - 1) ELSE 1..Len(contacts)

\* Dispatch is on for this run and the loop has been entered.
LoopEntered ==
    \/ pc \in {"emails", "custom_emails"}
    \/ mode = "GRIR" /\ send_emails /\ pc \in {"complete", "done"}
    \/ mode = "app" /\ send_emails /\ pc = "done"

\* C10: whatever the outcome of the dispatches, every contact row the loop
\* has gone past whose plant has a digest had its dispatch attempted, once;
\* the run does not stop before its end, and at its end run_analysis has
\* returned the summary table.
C10_FailureDoesNotStopTheRun ==
    /\ LoopEntered =>
          \A k \in Passed :
              Cardinality({d \in 1..Len(dispatches) : dispatches[d].contact = k})
                  = IF \E p \in DOMAIN plant_po_issues : ContactPlantIs(contacts[k], p)
                    THEN 1 ELSE 0
    /\ pc # "done" => ENABLED NextReport
    /\ pc = "done" => returned = <<summary>>

\* A run in which at least two dispatches were attempted and all of them
\* failed has ended, and run_analysis has returned the summary table.
C10_EveryDispatchFailed ==
    /\ pc = "done"
    /\ Len(dispatches) >= 2
    /\ \A d \in 1..Len(dispatches) : ~dispatches[d].ok
    /\ returned = <<summary>>

(***************************************************************************)
(* Failures signalled to the caller                                        *)
(***************************************************************************)

\* C11: a run whose merge of the two aggregates has no rows raises: it
\* neither writes an empty summary table nor returns one.
C11_EmptyMergeRaises ==
    /\ summary_file # <<>> => summary_file[1] # <<>>
    /\ returned # <<>> => returned[1] # <<>>

\* C12: a price_tolerance that is zero or negative is refused: no table is
\* classified with it.
C12_InvalidToleranceRefused ==
    price_tolerance <= 0 => pc # "classified"

(***************************************************************************)
(* The formatted workbooks                                                 *)
(***************************************************************************)

\* The workbooks formatted so far, each as the table written and its formatting.
Sheets ==
    (IF summary_format = <<>> THEN {}
     ELSE {[table |-> summary_file[1], format |-> summary_format[1]]})
    \cup {[table |-> plant_files[p], format |-> plant_formats[p]] : p \in DOMAIN plant_formats}

\* The maximal runs of sheet rows with one PO value; the data rows are 2..Len + 1.
Runs(table) ==
    {g \in [start : 2..(Len(table) + 1), end : 2..(Len(table) + 1)] :
        /\ g.start <= g.end
        /\ \A r \in g.start..g.end : table[r - 1].PO = table[g.start - 1].PO
        /\ g.start > 2 => table[g.start - 2].PO # table[g.start - 1].PO
        /\ g.end < Len(table) + 1 => table[g.end].PO # table[g.end - 1].PO}

\* C13: in a formatted workbook the Action cells of a run of rows with one PO
\* are merged exactly if the Action of the first row of the run is the
\* "Invoice has not been paid" text and the run has more than one row; in a
\* merged run every row after the first has an empty Action.
C13_MergeOnlyNotPaidGroups ==
    \A sh \in Sheets :
        LET merged == {sh.format.merged[n] : n \in 1..Len(sh.format.merged)}
        IN  /\ merged \subseteq Runs(sh.table)
            /\ \A g \in Runs(sh.table) :
                  g \in merged <=>
                      (sh.table[g.start - 1].Action = MsgNotPaid /\ g.end > g.start)
            /\ \A g \in merged :
                  \A r \in (g.start + 1)..g.end : sh.table[r - 1].Action = ""

\* The report of a plant has been written and formatted with a merged run.
C13_PlantReportWithMergedRun ==
    \E p \in DOMAIN plant_formats :
        /\ plant_formats[p].merged # <<>>
        /\ Len(plant_files[p]) >= 2

\* C14: the groups recorded for a formatted workbook are its maximal runs of
\* rows with one PO value, in order, so that every data row is in exactly
\* one group; the rows of the g-th group all have the colour that g alone
\* decides, and consecutive groups have different colours.
C14_BandsFollowRuns ==
    \A sh \in Sheets :
        LET groups == sh.format.po_groups
            colour(g) == IF g % 2 = 1 THEN "FFFFFF" ELSE "D9E1F2"
        IN  /\ {groups[g] : g \in 1..Len(groups)} = Runs(sh.table)
            /\ \A g, h \in 1..Len(groups) : g < h => groups[g].end < groups[h].start
            /\ \A r \in 2..(Len(sh.table) + 1) :
                  Cardinality({g \in 1..Len(groups) :
                                  groups[g].start <= r /\ r <= groups[g].end}) = 1
            /\ \A g \in 1..Len(groups) :
                  \A r \in groups[g].start..groups[g].end : sh.format.fill[r - 1] = colour(g)
            /\ \A g \in 1..(Len(groups) - 1) :
                  sh.format.fill[groups[g].end - 1] # sh.format.fill[groups[g + 1].start - 1]

\* The summary workbook has been formatted into at least two groups, one of
\* them of several rows.
C14_TwoBandsOneOfSeveralRows ==
    /\ summary_format # <<>>
    /\ Len(summary_format[1].po_groups) >= 2
    /\ \E g \in 1..Len(summary_format[1].po_groups) :
          summary_format[1].po_groups[g].end > summary_format[1].po_groups[g].start

(***************************************************************************)
(* The rendering of a PO in a digest                                       *)
(***************************************************************************)

\* The amount, in cents, that a rendered value reads as.
Read2f(text) ==
    LET a == ToInt(text.whole) * 100 + ToInt(text.decimals)
    IN  IF text.neg THEN 0 - a ELSE a

\* C15: in the report of a plant, a PO whose flagged rows at the plant all
\* carry the "Invoice has not been paid" text is rendered as one combined
\* line that holds the action text and nothing else; any other PO is
\* rendered as one block per flagged row, in order, holding the line number,
\* material, description, quantities, values and action of the row.
C15_CombinedLineOrBlockPerRow ==
    pc # "reports" =>
        \A plant \in DOMAIN plant_po_issues :
            LET report == plant_po_issues[plant]
            IN  \A p \in Headings(report) :
                    LET rows == SelectSeq([j \in 1..Len(summary) |-> j],
                                          LAMBDA j : j \in FlaggedAt(plant)
                                                     /\ summary[j].PO = report[p].PO)
                        body == SubSeq(report, p + 1, BlockEnd(report, p))
                    IN  IF \A n \in 1..Len(rows) : summary[rows[n]].Action = MsgNotPaid
                        THEN /\ Len(body) = 1
                             /\ DOMAIN body[1] = {"kind", "Action"}
                             /\ body[1].kind = "combined"
                             /\ body[1].Action = MsgNotPaid
                        ELSE /\ Len(body) = Len(rows)
                             /\ \A n \in 1..Len(rows) :
                                   LET row == summary[rows[n]]
                                   IN  /\ body[n].kind = "line"
                                       /\ body[n].Line = row.Line
                                       /\ body[n].LineShade = row.LineShade
                                       /\ body[n].Description = row.Description
                                       /\ body[n].GoodsReceiptQty = row.GoodsReceiptQty
                                       /\ Read2f(body[n].GoodsReceiptValue) = row.GoodsReceiptValue
                                       /\ body[n].InvoiceQty = row.InvoiceQty
                                       /\ Read2f(body[n].InvoiceReceiptValue) = row.InvoiceReceiptValue
                                       /\ body[n].Action = row.Action

\* The report of a plant renders one PO as a combined line and another PO
\* as a block for its row.
C15_CombinedAndPerRowInOneReport ==
    /\ pc # "reports"
    /\ \E plant \in DOMAIN plant_po_issues :
        /\ \E b \in 1..Len(plant_po_issues[plant]) : plant_po_issues[plant][b].kind = "combined"
        /\ \E b \in 1..Len(plant_po_issues[plant]) : plant_po_issues[plant][b].kind = "line"

(***************************************************************************)
(* What apply_issue_logic leaves alone                                     *)
(***************************************************************************)

\* The columns of the summary other than Action.
OtherFields ==
    {"PO", "Line", "LineShade", "Description", "Plant", "GoodsReceiptQty",
     "InvoiceQty", "GoodsReceiptValue", "InvoiceReceiptValue"}

\* What a call of apply_issue_logic does to the table.
FrameOfCall ==
    pc \in {"classify", "classified"} =>
        /\ Len(summary') = Len(summary)
        /\ \A r \in 1..Len(summary) :
              /\ DOMAIN summary'[r] = OtherFields \cup {"Action"}
              /\ \A f \in OtherFields : summary'[r][f] = summary[r][f]
        /\ (pc = "classified" => summary' = summary)

\* C16: a call of apply_issue_logic keeps the number of rows, their order
\* and every field other than Action, and a second call on the table the
\* first one returned, with the same tolerance, returns that table again.
C16_OnlyActionChangesAndIdempotent == [][FrameOfCall]_vars

\* A table with a flagged and an unflagged row has been classified twice.
C16_ClassifiedTwice ==
    /\ pc = "reclassified"
    /\ \E r \in 1..Len(summary) : summary[r].Action # ""
    /\ \E r \in 1..Len(summary) : summary[r].Action = ""

(***************************************************************************)
(* What the exclusion of deleted PO lines keeps                            *)
(***************************************************************************)

\* The EKBE row is a movement of a PO line that EKPO marks as deleted.
OfDeletedLine(r) ==
    /\ has_del_col
    /\ \E d \in 1..Len(po_doc) :
        /\ po_doc[d].DeletionIndicator = "L"
        /\ po_doc[d].PurchasingDocument = r.PurchasingDocument
        /\ po_doc[d].Item = r.Item

\* The EKBE rows of an event type that are not movements of a deleted line.
KeptMovements(type) ==
    SelectSeq(ekbe, LAMBDA r : r.TransEventType = type /\ ~OfDeletedLine(r))

\* The processed record holds the fields of the EKBE row.
SameMovement(m, r) ==
    /\ ToInt(m.PO_Number) = r.PurchasingDocument
    /\ ToInt(m.Item) = r.Item
    /\ m.Material = r.Material
    /\ m.Plant = r.Plant
    /\ m.DebitCreditInd = r.DebitCreditInd
    /\ m.Quantity = r.Quantity
    /\ m.Amount = r.Amount
    /\ m.AmtInLocCur = r.AmtInLocCur

\* C17: the goods receipts and the invoice receipts that process_data
\* returns are the EKBE rows of their event type without the movements
\* whose (PO, line) is that of a deleted PO line: every other row is there
\* once, with its fields, however often EKPO lists a deleted key, and every
\* row is there when no line is deleted.
C17_OnlyDeletedLinesRemoved ==
    pc # "start" =>
        /\ Len(mseg) = Len(KeptMovements(1))
        /\ \A n \in 1..Len(mseg) : SameMovement(mseg[n], KeptMovements(1)[n])
        /\ Len(rseg) = Len(KeptMovements(2))
        /\ \A n \in 1..Len(rseg) : SameMovement(rseg[n], KeptMovements(2)[n])

\* EKPO lists a deleted PO line twice; one movement of that line was removed
\* and a movement of another line was kept.
C17_DeletedKeyListedTwice ==
    /\ pc # "start" /\ has_del_col
    /\ \E d, e \in 1..Len(po_doc) :
        /\ d # e
        /\ po_doc[d].DeletionIndicator = "L" /\ po_doc[e].DeletionIndicator = "L"
        /\ po_doc[d].PurchasingDocument = po_doc[e].PurchasingDocument
        /\ po_doc[d].Item = po_doc[e].Item
    /\ \E m \in 1..Len(ekbe) : ekbe[m].TransEventType \in {1, 2} /\ OfDeletedLine(ekbe[m])
    /\ Len(mseg) + Len(rseg) = 1

(***************************************************************************)
(* A PO without any invoice whose rows are in several plants               *)
(***************************************************************************)

\* The PO has no invoice at all: every row is a goods receipt without one.
NotPaidPo(po) ==
    \A j \in PoGroup(summary, po) : GrNoIr(summary[j])

\* C18: once the reports are built, the report of every plant that has a
\* row of a PO without any invoice has a block for that PO, holding the
\* "Invoice has not been paid" text.
C18_NotPaidReachesEveryPlant ==
    pc # "reports" =>
        \A j \in 1..Len(summary) :
            NotPaidPo(summary[j].PO) =>
                /\ summary[j].Plant \in DOMAIN plant_po_issues
                /\ \E p \in Headings(plant_po_issues[summary[j].Plant]) :
                    /\ plant_po_issues[summary[j].Plant][p].PO = summary[j].PO
                    /\ plant_po_issues[summary[j].Plant][p + 1].Action = MsgNotPaid

====
